---- MODULE Spec2Model ----
(***************************************************************************)
(* s3_policy_manager.py: the bucket selector, the policy mutator (apply    *)
(* and remove), backup and restore, run repeatedly by one operator against *)
(* one object store and one local backup directory.                        *)
(*                                                                         *)
(* A policy document is [kind, Statement]: kind "list" when the JSON value *)
(* of "Statement" is an array, kind "object" when it is a single statement *)
(* object (the store accepts both; the tool only handles the array).       *)
(* A statement is [Sid, Resource]; Sid = NoSid when the key is absent.     *)
(***************************************************************************)
EXTENDS Integers, Sequences, FiniteSets, TLC

\* ------------------------------------------------------------------ bounds
MaxStmts == 3      \* largest statement list the store accepts (size limit)
MaxRuns == 2       \* invocations of the program in one behaviour
MaxClock == 1      \* seconds that pass during a behaviour
MaxSel == 2        \* indices typed at the selection prompt

\* ------------------------------------------------------------- vocabulary
Buckets == <<"b1", "b2">>
BucketNames == {Buckets[k] : k \in 1..Len(Buckets)}
NoSid == "-"
Placeholder == "${bucket_name}"
NoPolicy == <<>>
NoFile == <<>>
None == [kind |-> "none", Statement |-> <<>>]

Stmt(sid, res) == [Sid |-> sid, Resource |-> res]
List(stmts) == [kind |-> "list", Statement |-> stmts]
Object(stmt) == [kind |-> "object", Statement |-> <<stmt>>]

\* policy_templates/<name>.json as authored by the operator
TemplateFiles ==
  [tA |-> List(<<Stmt("A", Placeholder)>>),
   tN |-> List(<<Stmt(NoSid, Placeholder)>>),
   tBA |-> List(<<Stmt("B", "*"), Stmt("A", Placeholder)>>)]
TemplateNames == DOMAIN TemplateFiles
TemplateArgs == TemplateNames \cup {"missing"}
SidArgs == {"A", "B"}

\* policies the buckets may carry before the tool is first run
InitPolicies ==
  {None,
   List(<<Stmt("B", "*")>>),
   List(<<Stmt("A", "*"), Stmt(NoSid, "*"), Stmt("A", "b1")>>),
   Object(Stmt("A", "*"))}

\* ------------------------------------------------------------------- JSON
\* json.dumps: compact text; json.dump(indent=4): indented text of the same
\* value; json.loads / json.load: the value of either text.
dumps(doc) == <<"json", doc>>
dump_indent4(doc) == <<"json-indent-4", doc>>
loads(text) == text[2]

Range(s) == {s[k] : k \in 1..Len(s)}

VARIABLES
  store,        \* bucket -> policy text held by the object store, or NoPolicy
  files,        \* backup file name <<bucket, timestamp>> -> text, or NoFile
  clock,        \* datetime.now(), in seconds
  pc,           \* position of the running program
  args,         \* parsed command line
  bucket_list,  \* selected_buckets / bucket_list
  pending,      \* selected_buckets awaiting confirmation
  i,            \* position of the for loop in bucket_list
  results,      \* results dict: bucket -> status, "" when the key is absent
  locals,       \* apply_policy locals between the merge and the put
  ev,           \* what the last loop iteration or restore did
  lastOp,       \* the bucket and template of the tool's latest operation, when
                \* that was an apply iteration reporting success or skipped
  pre,          \* store at the start of the running call
  processed,    \* buckets the running call has finished, in order
  sel,          \* how the selector returned
  orig,         \* backup file name -> the policy backup_policy was given
  runs          \* invocations of the program so far

vars == <<store, files, clock, pc, args, bucket_list, pending, i, results,
          locals, ev, lastOp, pre, processed, sel, orig, runs>>

FileNames == BucketNames \X (0..MaxClock)

NoArgs == [sid |-> "", action |-> "none", template |-> "", backup |-> FALSE]
NoLocals == [final_policy |-> None, backup_file |-> <<>>]
NoEv == [op |-> "none", bucket |-> "", before |-> NoPolicy, status |-> "",
         did |-> "none", sent |-> None, fault |-> "none", wrote |-> <<>>,
         file |-> <<>>, repeat |-> FALSE]
NoLast == [template |-> "", bucket |-> ""]
NoSel == [how |-> "none", entered |-> <<>>]

\* ------------------------------------------------------- pure functions

\* get_current_policy: the parsed policy, None on NoSuchBucketPolicy
get_current_policy(st, b) == IF st[b] = NoPolicy THEN None ELSE loads(st[b])

\* replace_placeholders on one string value
replace_str(s, bucket_name) == IF s = Placeholder THEN bucket_name ELSE s

\* load_policy_template: the template with ${bucket_name} substituted
load_policy_template(template_name, bucket_name) ==
  LET t == TemplateFiles[template_name] IN
  [kind |-> t.kind,
   Statement |-> [k \in 1..Len(t.Statement) |->
       Stmt(t.Statement[k].Sid, replace_str(t.Statement[k].Resource, bucket_name))]]

\* any(stmt.get('Sid') == new['Statement'][0]['Sid'] for stmt in current)
policy_exists(current_policy, new_policy_statement) ==
  \E k \in 1..Len(current_policy.Statement) :
     current_policy.Statement[k].Sid = new_policy_statement.Statement[1].Sid

\* variant: the template's statements are placed in front of the existing ones
extend_in_front(current_policy, new_policy_statement) ==
  [current_policy EXCEPT !.Statement = new_policy_statement.Statement \o @]

\* current_policy['Statement'].extend(new_policy_statement['Statement'])
extend(current_policy, new_policy_statement) ==
  [current_policy EXCEPT !.Statement = @ \o new_policy_statement.Statement]

\* variant: a statement without a Sid is dropped as well
KeepStmt_named_only(stmt, sid) == stmt.Sid # sid /\ stmt.Sid # NoSid

\* variant: only the first statement carrying the Sid is dropped
filter_sid_first_match(stmts, sid) ==
  LET hits == {k \in 1..Len(stmts) : stmts[k].Sid = sid} IN
  IF hits = {} THEN stmts
  ELSE LET f == CHOOSE k \in hits : \A j \in hits : k <= j IN
       SubSeq(stmts, 1, f - 1) \o SubSeq(stmts, f + 1, Len(stmts))

\* [stmt for stmt in current_policy['Statement'] if stmt.get('Sid') != sid]
KeepStmt(stmt, sid) == stmt.Sid # sid
filter_sid(stmts, sid) == SelectSeq(stmts, LAMBDA stmt : KeepStmt(stmt, sid))

\* the merge decision of one apply_policy iteration, lines 184-203:
\* "error" (AttributeError on a Statement object, KeyError on a template
\* statement without Sid), "skipped", or "put" with the document to upload
ApplyMerge(current_policy, new_policy_statement) ==
  IF current_policy = None
    THEN [final_policy |-> new_policy_statement, status |-> "put", raised |-> "none"]
  ELSE IF current_policy.kind = "object"
    THEN [final_policy |-> None, status |-> "error", raised |-> "AttributeError"]
  ELSE IF Len(current_policy.Statement) > 0
          /\ new_policy_statement.Statement[1].Sid = NoSid
    THEN [final_policy |-> None, status |-> "error", raised |-> "KeyError"]
  ELSE IF policy_exists(current_policy, new_policy_statement)
    THEN [final_policy |-> None, status |-> "skipped", raised |-> "none"]
  ELSE [final_policy |-> extend(current_policy, new_policy_statement),
        status |-> "put", raised |-> "none"]

\* the store's put_bucket_policy accepts a document within its size limit
\* that has at least one statement
StoreAccepts(doc) == Len(doc.Statement) >= 1 /\ Len(doc.Statement) <= MaxStmts

\* ------------------------------------------------------------------- Init
Init ==
  /\ \E p \in [BucketNames -> InitPolicies] :
        store = [b \in BucketNames |-> IF p[b] = None THEN NoPolicy ELSE dumps(p[b])]
  /\ files = [n \in FileNames |-> NoFile]
  /\ orig = [n \in FileNames |-> None]
  /\ clock = 0
  /\ pc = "main"
  /\ args = NoArgs
  /\ bucket_list = <<>>
  /\ pending = <<>>
  /\ i = 0
  /\ results = [b \in BucketNames |-> ""]
  /\ locals = NoLocals
  /\ ev = NoEv
  /\ lastOp = NoLast
  /\ pre = store
  /\ processed = <<>>
  /\ sel = NoSel
  /\ runs = 0

\* ---------------------------------------------------------- bucket selector
Indices == 0..(Len(Buckets) + 1)
IndexLists == UNION {[1..n -> Indices] : n \in 1..MaxSel}

\* variant: the last listed bucket cannot be chosen by number
InRange_below_last(idx) == ~(idx < 1 \/ idx >= Len(Buckets))

\* lines 53-59: the names of the entered indices that are in 1..len(buckets)
InRange(idx) == ~(idx < 1 \/ idx > Len(Buckets))
selected_buckets(selected_indices) ==
  LET valid == SelectSeq(selected_indices, InRange) IN
  [k \in 1..Len(valid) |-> Buckets[valid[k]]]

\* line 50 and line 70: the selector returns `chosen`
Return(chosen, how, entered) ==
  /\ bucket_list' = chosen
  /\ sel' = [how |-> how, entered |-> entered]
  /\ pc' = "selected"
  /\ pending' = <<>>

\* the answer 'all' to "Enter bucket numbers (comma-separated) or 'all'"
SelectAll ==
  /\ pc = "select"
  /\ Return(Buckets, "all", <<>>)
  /\ UNCHANGED <<store, files, clock, args, i, results, locals, ev, lastOp, pre,
                 processed, orig, runs>>

\* an answer that is not 'all' and not comma-separated integers: ValueError
SelectInvalid ==
  /\ pc = "select"
  /\ sel' = [how |-> "invalid", entered |-> <<>>]
  /\ UNCHANGED <<store, files, clock, pc, args, bucket_list, pending, i, results,
                 locals, ev, lastOp, pre, processed, orig, runs>>

\* comma-separated integers (lines 52-68)
SelectNumbers ==
  /\ pc = "select"
  /\ \E selected_indices \in IndexLists :
       /\ pending' = selected_buckets(selected_indices)
       /\ sel' = [how |-> "numbers", entered |-> selected_indices]
       /\ pc' = IF selected_buckets(selected_indices) = <<>> THEN "select" ELSE "confirm"
  /\ UNCHANGED <<store, files, clock, args, bucket_list, i, results, locals, ev,
                 lastOp, pre, processed, orig, runs>>

\* the answer to "Proceed with these buckets? (y/n)" (lines 68-72)
Confirm ==
  /\ pc = "confirm"
  /\ \/ Return(pending, "confirmed", sel.entered)
     \/ /\ pc' = "select"
        /\ sel' = [how |-> "declined", entered |-> <<>>]
        /\ pending' = <<>>
        /\ UNCHANGED bucket_list
  /\ UNCHANGED <<store, files, clock, args, i, results, locals, ev, lastOp, pre,
                 processed, orig, runs>>

\* the lists list_and_select_buckets can return that name at most as many
\* entries as there are buckets: 'all', or one to len(buckets) valid indices
\* in any order, repeated or not
Selections ==
  {Buckets} \cup
  UNION {{selected_buckets(x) : x \in [1..n -> 1..Len(Buckets)]} : n \in 1..Len(Buckets)}

\* ------------------------------------------------------------------- main
\* __main__ with action apply or remove (lines 299-336): the arguments are
\* parsed, list_and_select_buckets returns a selection and the loop of
\* apply_policy / remove_policy starts
Start(a) ==
  /\ pc = "main"
  /\ runs < MaxRuns
  /\ args' = a
  /\ \E chosen \in Selections : bucket_list' = chosen
  /\ pc' = a.action
  /\ i' = 1
  /\ results' = [b \in BucketNames |-> ""]
  /\ processed' = <<>>
  /\ pre' = store
  /\ runs' = runs + 1
  /\ ev' = NoEv
  /\ UNCHANGED <<store, files, clock, pending, locals, lastOp, sel, orig>>

StartApply ==
  \E t \in TemplateArgs, no_backup \in BOOLEAN :
     Start([sid |-> "", action |-> "apply", template |-> t, backup |-> ~no_backup])

StartRemove ==
  \E s \in SidArgs :
     Start([sid |-> s, action |-> "remove", template |-> "", backup |-> FALSE])

\* ------------------------------------------------------------------ backup
\* backup_policy: the file it writes, named by the bucket and the second
backup_name(bucket_name, timestamp) == <<bucket_name, timestamp>>
backup_text(policy) == dump_indent4(policy)

\* variant: a backup is written whether requested or not
backup_wanted_ignoring_flag(backup, current_policy) == current_policy # None

\* line 177 with line 122: a backup is written when requested and a policy exists
backup_wanted(backup, current_policy) == backup /\ current_policy # None

\* variant: the file's statements are merged into the bucket's policy
restore_merging(st, bucket_name, text) ==
  [st EXCEPT ![bucket_name] =
     IF st[bucket_name] = NoPolicy THEN dumps(loads(text))
     ELSE dumps(extend(loads(st[bucket_name]), loads(text)))]

\* lines 277-283: the store after the file's document is uploaded to the bucket
restore_upload(st, bucket_name, text) ==
  [st EXCEPT ![bucket_name] = dumps(loads(text))]

\* exceptions raised by the store or the file system, as opposed to those
\* the tool's own code raises on the documents it handles
Refusals == {"get", "backup", "put", "delete", "open"}

\* ------------------------------------------------------- loop bookkeeping
\* variant: the loop is left at the first bucket that fails
NextPc_stop_on_error(loop, status) ==
  IF i = Len(bucket_list) \/ status = "error" THEN "returned" ELSE loop

\* the end of one iteration of the for loop of apply_policy / remove_policy:
\* results[bucket_name] is set and the loop moves on, returning after the
\* last bucket
NextPc(loop, status) == IF i = Len(bucket_list) THEN "returned" ELSE loop
IterDone(loop, b, e) ==
  /\ results' = [results EXCEPT ![b] = e.status]
  /\ processed' = Append(processed, b)
  /\ ev' = e
  /\ lastOp' = IF e.op = "apply" /\ e.status \in {"success", "skipped"}
                 THEN [template |-> args.template, bucket |-> b] ELSE NoLast
  /\ i' = i + 1
  /\ pc' = NextPc(loop, e.status)

Event(op, b, status, did, sent, fault, wrote) ==
  [op |-> op, bucket |-> b, before |-> store[b], status |-> status, did |-> did,
   sent |-> sent, fault |-> fault, wrote |-> wrote, file |-> <<>>,
   repeat |-> op = "apply" /\ lastOp = [template |-> args.template, bucket |-> b]]

\* ------------------------------------------------------------ apply_policy
\* lines 170-203 for bucket_list[i]: get, backup, load the template, merge
ApplyPrepare ==
  /\ pc = "apply"
  /\ LET b == bucket_list[i]
         current_policy == get_current_policy(store, b)
         wanted == backup_wanted(args.backup, current_policy)
     IN
     \E now \in clock..MaxClock :
     LET name == IF wanted THEN backup_name(b, now) ELSE <<>> IN
     \/ \* get_bucket_policy refused
        /\ now = clock
        /\ IterDone("apply", b, Event("apply", b, "error", "none", None, "get", <<>>))
        /\ UNCHANGED <<files, orig, locals, clock>>
     \/ \* the backup file cannot be written
        /\ wanted
        /\ now = clock
        /\ IterDone("apply", b, Event("apply", b, "error", "none", None, "backup", <<>>))
        /\ UNCHANGED <<files, orig, locals, clock>>
     \/ /\ wanted \/ now = clock
        /\ clock' = now
        /\ files' = IF wanted
                      THEN [files EXCEPT ![name] = backup_text(current_policy)]
                      ELSE files
        /\ orig' = IF wanted THEN [orig EXCEPT ![name] = current_policy] ELSE orig
        /\ IF args.template \notin TemplateNames
             THEN \* FileNotFoundError: sys.exit(1) passes the except clause
                  /\ pc' = "exited"
                  /\ ev' = Event("apply", b, "exit", "none", None, "none", name)
                  /\ UNCHANGED <<results, processed, lastOp, i, locals>>
             ELSE LET m == ApplyMerge(current_policy,
                                      load_policy_template(args.template, b)) IN
                  IF m.status = "put"
                    THEN /\ pc' = "apply_put"
                         /\ locals' = [final_policy |-> m.final_policy,
                                       backup_file |-> name]
                         /\ UNCHANGED <<results, processed, lastOp, i, ev>>
                    ELSE /\ IterDone("apply", b,
                               Event("apply", b, m.status, "none", None, m.raised, name))
                         /\ UNCHANGED locals
  /\ UNCHANGED <<store, args, bucket_list, pending, pre, sel, runs>>

\* lines 206-214: put_bucket_policy(json.dumps(final_policy)), then the result
ApplyPut ==
  /\ pc = "apply_put"
  /\ LET b == bucket_list[i] IN
     \/ \* put_bucket_policy refused (any ClientError)
        /\ IterDone("apply", b,
              Event("apply", b, "error", "none", locals.final_policy, "put",
                    locals.backup_file))
        /\ UNCHANGED store
     \/ /\ StoreAccepts(locals.final_policy)
        /\ store' = [store EXCEPT ![b] = dumps(locals.final_policy)]
        /\ IterDone("apply", b,
              Event("apply", b, "success", "put", locals.final_policy, "none",
                    locals.backup_file))
  /\ locals' = NoLocals
  /\ UNCHANGED <<files, clock, args, bucket_list, pending, pre, sel, orig, runs>>

\* ----------------------------------------------------------- remove_policy
\* variant: the filtered list is uploaded even when it is empty
RemoveStep_never_delete(current_policy, sid) ==
  IF current_policy = None
    THEN [status |-> "skipped", did |-> "none", sent |-> None, raised |-> "none"]
  ELSE IF current_policy.kind = "object"
    THEN [status |-> "error", did |-> "none", sent |-> None, raised |-> "AttributeError"]
  ELSE LET kept == filter_sid(current_policy.Statement, sid) IN
       IF Len(kept) = Len(current_policy.Statement)
         THEN [status |-> "skipped", did |-> "none", sent |-> None, raised |-> "none"]
       ELSE [status |-> "success", did |-> "put",
             sent |-> [current_policy EXCEPT !.Statement = kept],
             raised |-> "none"]

\* lines 233-262 after the get: what one iteration decides to do
RemoveStep(current_policy, sid) ==
  IF current_policy = None
    THEN [status |-> "skipped", did |-> "none", sent |-> None, raised |-> "none"]
  ELSE IF current_policy.kind = "object"
    THEN [status |-> "error", did |-> "none", sent |-> None, raised |-> "AttributeError"]
  ELSE LET kept == filter_sid(current_policy.Statement, sid) IN
       IF Len(kept) = Len(current_policy.Statement)
         THEN [status |-> "skipped", did |-> "none", sent |-> None, raised |-> "none"]
       ELSE IF kept # <<>>
         THEN [status |-> "success", did |-> "put",
               sent |-> [current_policy EXCEPT !.Statement = kept],
               raised |-> "none"]
       ELSE [status |-> "success", did |-> "delete", sent |-> None, raised |-> "none"]

\* one iteration of the loop of remove_policy, lines 229-268
RemoveIter ==
  /\ pc = "remove"
  /\ LET b == bucket_list[i]
         r == RemoveStep(get_current_policy(store, b), args.sid)
     IN
     \/ \* get_bucket_policy refused
        /\ IterDone("remove", b, Event("remove", b, "error", "none", None, "get", <<>>))
        /\ UNCHANGED store
     \/ \* put_bucket_policy / delete_bucket_policy refused
        /\ r.did # "none"
        /\ IterDone("remove", b, Event("remove", b, "error", "none", r.sent, r.did, <<>>))
        /\ UNCHANGED store
     \/ /\ r.did = "put" => StoreAccepts(r.sent)
        /\ store' = [store EXCEPT ![b] =
                       CASE r.did = "put" -> dumps(r.sent)
                         [] r.did = "delete" -> NoPolicy
                         [] OTHER -> @]
        /\ IterDone("remove", b, Event("remove", b, r.status, r.did, r.sent, r.raised, <<>>))
  /\ UNCHANGED <<files, clock, args, bucket_list, pending, locals, pre, sel, orig, runs>>

\* ---------------------------------------------------------- restore_policy
\* __main__ with action restore: restore_policy(bucket, backup_file), the
\* result is shown and the program exits (lines 313-322, 272-286)
Restore ==
  /\ pc = "main"
  /\ runs < MaxRuns
  /\ \E b \in BucketNames, backup_file \in FileNames :
       LET e == Event("restore", b, "error", "none", None, "none", <<>>) IN
       \/ \* no such file: FileNotFoundError
          /\ files[backup_file] = NoFile
          /\ ev' = [e EXCEPT !.file = backup_file, !.fault = "open"]
          /\ UNCHANGED <<store, lastOp>>
       \/ /\ files[backup_file] # NoFile
          /\ ev' = [e EXCEPT !.file = backup_file, !.fault = "put",
                             !.sent = loads(files[backup_file])]
          /\ lastOp' = NoLast
          /\ UNCHANGED store
       \/ /\ files[backup_file] # NoFile
          /\ StoreAccepts(loads(files[backup_file]))
          /\ store' = restore_upload(store, b, files[backup_file])
          /\ ev' = [e EXCEPT !.file = backup_file, !.status = "success",
                             !.did = "put", !.sent = loads(files[backup_file])]
          /\ lastOp' = NoLast
  /\ runs' = runs + 1
  /\ pre' = store
  /\ args' = [NoArgs EXCEPT !.action = "restore"]
  /\ pc' = "exited"
  /\ UNCHANGED <<files, clock, bucket_list, pending, i, results, locals,
                 processed, sel, orig>>

\* the results are shown and the process ends; the operator may run the
\* program again (lines 338-350; sys.exit)
Exit ==
  /\ pc \in {"returned", "exited"}
  /\ pc' = "main"
  /\ args' = NoArgs
  /\ bucket_list' = <<>>
  /\ i' = 0
  /\ results' = [b \in BucketNames |-> ""]
  /\ ev' = NoEv
  /\ pre' = store
  /\ processed' = <<>>
  /\ sel' = NoSel
  /\ UNCHANGED <<store, files, clock, pending, locals, lastOp, orig, runs>>

Next ==
  \/ StartApply
  \/ StartRemove
  \/ ApplyPrepare
  \/ ApplyPut
  \/ RemoveIter
  \/ Restore
  \/ Exit

Spec == Init /\ [][Next]_vars

\* the bucket selector alone, entered from __main__ (line 325)
InitSelect ==
  /\ store = [b \in BucketNames |-> NoPolicy]
  /\ files = [n \in FileNames |-> NoFile]
  /\ orig = [n \in FileNames |-> None]
  /\ clock = 0
  /\ pc = "select"
  /\ args \in {[sid |-> "", action |-> "apply", template |-> t, backup |-> k] :
                  t \in TemplateArgs, k \in BOOLEAN}
              \cup {[sid |-> s, action |-> "remove", template |-> "", backup |-> FALSE] :
                  s \in SidArgs}
  /\ bucket_list = <<>>
  /\ pending = <<>>
  /\ i = 0
  /\ results = [b \in BucketNames |-> ""]
  /\ locals = NoLocals
  /\ ev = NoEv
  /\ lastOp = NoLast
  /\ pre = store
  /\ processed = <<>>
  /\ sel = NoSel
  /\ runs = 1

NextSelect ==
  \/ SelectAll
  \/ SelectInvalid
  \/ SelectNumbers
  \/ Confirm

SpecSelect == InitSelect /\ [][NextSelect]_vars

\* ======================================================================
\* Properties
\* ======================================================================
BeforeDoc == IF ev.before = NoPolicy THEN None ELSE loads(ev.before)
StoredStatements(b) == IF store[b] = NoPolicy THEN <<>> ELSE loads(store[b]).Statement
Matching(stmts, sid) == {k \in 1..Len(stmts) : stmts[k].Sid = sid}
NotRefused == ev.fault \notin Refusals

\* `result` is `original` with the elements at the positions outside `keep`
\* deleted and the others left in their order
IsSubsequenceAt(result, original, keep) ==
  /\ Len(result) = Cardinality(keep)
  /\ \A k \in keep : result[Cardinality({j \in keep : j <= k})] = original[k]

\* the statements after position n of `after` are those of the template
\* file, with the placeholder replaced by the bucket's name
IsSubstituted(after, n, template, b) ==
  \A k \in 1..Len(template) :
     /\ after[n + k].Sid = template[k].Sid
     /\ after[n + k].Resource =
          (IF template[k].Resource = Placeholder THEN b ELSE template[k].Resource)

\* C1 (as claimed): an apply iteration that repeats the tool's latest
\* operation - same bucket, same template, the earlier one reported success
\* or skipped - and meets no refusal reports 'skipped', puts nothing and
\* leaves the stored policy as it was.
C1_SecondApplySkipped ==
  (ev.op = "apply" /\ ev.repeat /\ NotRefused) =>
     /\ ev.status = "skipped"
     /\ ev.did = "none"
     /\ store[ev.bucket] = ev.before

\* C2: a bucket whose get, backup, put or delete is refused, or whose policy
\* the tool cannot handle, gets the result 'error'; the loop goes through the
\* selection in order whatever the results, and returns only when every
\* selected bucket has been processed and has an entry in the results.
C2_ErrorIsolation ==
  /\ (ev.op \in {"apply", "remove"} /\ ev.fault # "none") =>
        (ev.status = "error" /\ results[ev.bucket] = "error")
  /\ pc \in {"apply", "apply_put", "remove"} =>
        /\ i = Len(processed) + 1
        /\ i <= Len(bucket_list)
        /\ processed = SubSeq(bucket_list, 1, Len(processed))
  /\ pc = "returned" =>
        /\ processed = bucket_list
        /\ \A b \in BucketNames : (results[b] # "") <=> (b \in Range(bucket_list))

C2_Witness ==
  /\ pc = "returned"
  /\ Len(bucket_list) = 2
  /\ bucket_list[1] # bucket_list[2]
  /\ results[bucket_list[1]] = "error"
  /\ results[bucket_list[2]] = "success"

\* C3: an apply iteration no call of which is refused, on a bucket without
\* policy, uploads the template with the placeholder replaced by the bucket's
\* name; on a bucket whose statement list has no statement with the Sid of
\* the template's first statement, it uploads the existing statements in
\* their order followed by the substituted template statements; both report
\* 'success'.
C3_ApplyMergeResult ==
  (ev.op = "apply" /\ ev.status # "exit" /\ NotRefused) =>
     LET b == ev.bucket
         template == TemplateFiles[args.template].Statement
         before == BeforeDoc
         after == StoredStatements(b)
     IN
     /\ before = None =>
          /\ ev.status = "success" /\ ev.did = "put"
          /\ store[b] # NoPolicy
          /\ Len(after) = Len(template)
          /\ IsSubstituted(after, 0, template, b)
     /\ (/\ before # None
         /\ before.kind = "list"
         /\ template[1].Sid # NoSid
         /\ Matching(before.Statement, template[1].Sid) = {}) =>
          /\ ev.status = "success" /\ ev.did = "put"
          /\ Len(after) = Len(before.Statement) + Len(template)
          /\ \A k \in 1..Len(before.Statement) : after[k] = before.Statement[k]
          /\ IsSubstituted(after, Len(before.Statement), template, b)

C3_Witness ==
  /\ ev.op = "apply" /\ ev.status = "success"
  /\ ev.before # NoPolicy
  /\ Len(StoredStatements(ev.bucket)) = Len(BeforeDoc.Statement) + 2

\* C4: a remove iteration no call of which is refused, on a bucket with a
\* statement list: when some statement carries the target Sid, the stored
\* list afterwards is the original one with exactly those statements deleted
\* (the others, with or without Sid, in their order) and is shorter; when
\* none does, nothing is put or deleted, the stored document is unchanged and
\* the status is 'skipped'.
C4_RemoveCorrectness ==
  (ev.op = "remove" /\ NotRefused /\ BeforeDoc # None /\ BeforeDoc.kind = "list") =>
     LET original == BeforeDoc.Statement
         after == StoredStatements(ev.bucket)
         keep == (1..Len(original)) \ Matching(original, args.sid)
     IN
     /\ Matching(original, args.sid) # {} =>
          /\ ev.status = "success"
          /\ IsSubsequenceAt(after, original, keep)
          /\ Len(after) < Len(original)
     /\ Matching(original, args.sid) = {} =>
          /\ ev.status = "skipped"
          /\ ev.did = "none"
          /\ store[ev.bucket] = ev.before

C4_Witness ==
  /\ ev.op = "remove" /\ ev.status = "success" /\ ev.did = "put"
  /\ \E k \in 1..Len(StoredStatements(ev.bucket)) :
        StoredStatements(ev.bucket)[k].Sid = NoSid

\* C5: remove_policy never uploads, nor tries to upload, a document with an
\* empty statement list, and the store never holds one; a remove iteration
\* that filters every statement out and is not refused deletes the bucket's
\* policy and reports 'success'.
C5_FullRemovalDeletes ==
  /\ \A b \in BucketNames : store[b] # NoPolicy => Len(loads(store[b]).Statement) >= 1
  /\ ev.op = "remove" =>
       /\ ev.sent # None => Len(ev.sent.Statement) >= 1
       /\ (/\ NotRefused
           /\ BeforeDoc # None
           /\ BeforeDoc.kind = "list"
           /\ Matching(BeforeDoc.Statement, args.sid) = 1..Len(BeforeDoc.Statement)) =>
            /\ ev.did = "delete"
            /\ store[ev.bucket] = NoPolicy
            /\ ev.status = "success"

C5_Witness ==
  /\ ev.op = "remove" /\ ev.did = "delete" /\ ev.status = "success"
  /\ ev.before # NoPolicy
  /\ store[ev.bucket] = NoPolicy

\* C6: at the moment of the put of an apply iteration, when backup is
\* requested and the bucket has a policy, a backup file named by the bucket
\* exists and holds exactly the policy the store still holds for the bucket,
\* not the merged document about to be uploaded; otherwise the iteration has
\* no backup file. An iteration with backup disabled or on a bucket without
\* policy writes no file, and the put itself writes none.
C6_AtPut ==
  pc = "apply_put" =>
     LET b == bucket_list[i]
         name == locals.backup_file
     IN
     IF args.backup /\ store[b] # NoPolicy
       THEN /\ name # <<>>
            /\ name[1] = b
            /\ files[name] = dump_indent4(loads(store[b]))
            /\ loads(files[name]) # locals.final_policy
       ELSE name = <<>>

C6_NoBackupStep ==
  /\ (pc = "apply" /\ ~(args.backup /\ store[bucket_list[i]] # NoPolicy)) => files' = files
  /\ pc = "apply_put" => files' = files

C6_BackupPrecedesPut == []C6_AtPut /\ [][C6_NoBackupStep]_vars

C6_Witness ==
  /\ pc = "apply_put"
  /\ args.backup
  /\ store[bucket_list[i]] # NoPolicy
  /\ files[locals.backup_file] # NoFile

\* C7: a restore from a file backup_policy wrote, when the put is not
\* refused, leaves the bucket with exactly the policy that was backed up,
\* whatever the bucket held, and reports 'success'; restore writes no file.
C7_AfterRestore ==
  (ev.op = "restore" /\ NotRefused) =>
     /\ ev.status = "success"
     /\ orig[ev.file] # None
     /\ store[ev.bucket] # NoPolicy
     /\ loads(store[ev.bucket]) = orig[ev.file]

C7_RestoreStep == (pc = "main" /\ args'.action = "restore") => files' = files

C7_RestoreRoundTrip == []C7_AfterRestore /\ [][C7_RestoreStep]_vars

C7_Witness ==
  /\ ev.op = "restore" /\ ev.status = "success"
  /\ ev.before # NoPolicy
  /\ ev.before # store[ev.bucket]
  /\ ev.file[1] # ev.bucket

\* the names of the in-range indices entered, in the order entered
FromEntered(list, entered) ==
  IsSubsequenceAt(list,
                  [k \in 1..Len(entered) |->
                      IF entered[k] \in 1..Len(Buckets) THEN Buckets[entered[k]] ELSE ""],
                  {k \in 1..Len(entered) : entered[k] \in 1..Len(Buckets)})

\* C8 (as claimed): the selector returns only after 'y' was answered to the
\* confirmation of the selection it returns, which is non-empty and made of
\* the names of the entered indices within 1..N.
C8_ReturnsOnlyConfirmed ==
  pc = "selected" =>
     /\ sel.how = "confirmed"
     /\ bucket_list # <<>>
     /\ FromEntered(bucket_list, sel.entered)

\* C8 (amended): the selector returns either at once on the answer 'all',
\* with every listed bucket and without confirmation, or after 'y' was
\* answered to the confirmation of the selection it returns, which is
\* non-empty and made of the names of the entered indices within 1..N in the
\* order entered (indices out of range are dropped); confirmation is only
\* asked for such a selection.
C8_SelectorReturn ==
  /\ pc = "confirm" =>
        (pending # <<>> /\ FromEntered(pending, sel.entered))
  /\ pc = "selected" =>
        \/ sel.how = "all" /\ bucket_list = Buckets
        \/ /\ sel.how = "confirmed"
           /\ bucket_list # <<>>
           /\ FromEntered(bucket_list, sel.entered)

C8_Witness ==
  /\ pc = "selected"
  /\ sel.how = "confirmed"
  /\ Len(sel.entered) > Len(bucket_list)

\* the stored list is `stmts` without its first statement carrying the Sid
WithoutFirstMatch(stmts, sid) ==
  IsSubsequenceAt(StoredStatements(ev.bucket), stmts,
                  (1..Len(stmts)) \ {CHOOSE k \in Matching(stmts, sid) :
                                        \A j \in Matching(stmts, sid) : k <= j})

\* C9 (as claimed): removing a Sid that two or more statements share acts on
\* the first match only.
C9_RemoveFirstMatchOnly ==
  (/\ ev.op = "remove" /\ ev.status = "success"
   /\ Cardinality(Matching(BeforeDoc.Statement, args.sid)) >= 2) =>
     WithoutFirstMatch(BeforeDoc.Statement, args.sid)

\* C9 (amended): statements sharing a Sid are not rejected; apply_policy
\* skips a bucket as soon as one statement carries the template's Sid, and
\* remove_policy removes every statement carrying the target Sid, not the
\* first only.
C9_DuplicateSid ==
  /\ (/\ ev.op = "remove" /\ NotRefused
      /\ BeforeDoc.kind = "list"
      /\ Cardinality(Matching(BeforeDoc.Statement, args.sid)) >= 2) =>
        /\ ev.status = "success"
        /\ Matching(StoredStatements(ev.bucket), args.sid) = {}
        /\ Len(StoredStatements(ev.bucket)) =
             Len(BeforeDoc.Statement)
               - Cardinality(Matching(BeforeDoc.Statement, args.sid))
  /\ (/\ ev.op = "apply" /\ ev.status # "exit" /\ NotRefused
      /\ BeforeDoc.kind = "list"
      /\ TemplateFiles[args.template].Statement[1].Sid # NoSid
      /\ Cardinality(Matching(BeforeDoc.Statement,
                              TemplateFiles[args.template].Statement[1].Sid)) >= 2) =>
        /\ ev.status = "skipped"
        /\ store[ev.bucket] = ev.before

C9_Witness ==
  /\ ev.op = "remove" /\ ev.status = "success" /\ ev.did = "put"
  /\ Cardinality(Matching(BeforeDoc.Statement, args.sid)) >= 2

\* C10 (as claimed): when apply_policy or remove_policy returns, every
\* bucket whose stored policy differs from the one it had before the call
\* has the status 'success' in the returned results.
C10_StatusMatchesMutation ==
  pc = "returned" =>
     \A b \in BucketNames : store[b] # pre[b] => results[b] = "success"

====
